---- MODULE Spec2Model ----
(***************************************************************************)
(* Model of the Streamlit analytics dashboard (src/app.py) and of its two  *)
(* query executors (src/database_connections/*.py).                        *)
(*                                                                         *)
(* One behaviour is the life of the server process: render passes of the   *)
(* three pages, the memoized bundle loaders, the passage of time and the   *)
(* manual refresh.  A bundle load is modelled loader call by loader call;  *)
(* each call draws the outcome of the warehouse nondeterministically.      *)
(*                                                                         *)
(* Environment: in one behaviour one of the two warehouses is unreliable   *)
(* (each of its queries can fail to connect, fail to run, or come back     *)
(* without rows, independently of the others) and the other one answers    *)
(* every query with rows.  The two bundles meet only in the cache.         *)
(***************************************************************************)
EXTENDS Naturals, Integers, Sequences, FiniteSets, TLC

VARIABLES
    page,      \* page selected in the sidebar for the current render pass
    pc,        \* position of the render pass
    lookup,    \* what the cache lookup of the current pass found
    results,   \* return values of the loaders called in this pass's bundle load
    answer,    \* what the warehouse did in the latest executor call of this pass
    bundle,    \* what the bundle loader handed to the page body
    cache,     \* st.cache_data entries, one per bundle loader
    notices,   \* user-visible notices emitted during the current pass
    calls,     \* executor invocations during the current pass
    invoked,   \* dataset loaders called during the current pass, in call order
    section,   \* number of page-body sections rendered in the current pass
    trigger,   \* what started the current pass, and the entries a clear() removed
    degraded,  \* the warehouse that is unreliable in this behaviour
    step,            \* position inside one page-body section followed row by row
    global_dist_df,  \* rows of the global distribution table given to that section
    map_df,          \* global_dist_df.copy() with its iso_alpha column
    fig_map,         \* rows handed to px.choropleth
    heatmap_df,      \* rows of the heatmap table
    suspect_drugs_df,  \* rows of the suspect-drug table given to that section
    top_suspect,     \* suspect_drugs_df.head(10).copy() with its recovery_rate column
    sess,            \* script runs of the browser sessions served side by side
    loads,           \* bundle loads started by those sessions so far
    faults,          \* warehouse queries that did not return rows to those sessions
    mock_row,        \* the dict a generator loop is filling for one row
    now,             \* datetime.now() of a generator run: calendar year and month
    exec_data,       \* rows appended so far by the executive-summary generator loop
    frames           \* local names of a page body bound to tables, and what was written

\* State of the parts of the program followed on their own: session threads
\* side by side, and the generator loops draw by draw.
aside == <<sess, loads, faults, mock_row, now, exec_data, frames>>

\* Table contents of the sections followed row by row.  The render passes of
\* Spec carry the shape of each table only (origin, labels, row count).
detail ==
    <<step, global_dist_df, map_df, fig_map, heatmap_df, suspect_drugs_df, top_suspect,
      aside>>

vars ==
    <<page, pc, lookup, results, answer, bundle, cache, notices, calls, invoked, section,
      trigger, degraded, detail>>

\* ---------------------------------------------------------------- bounds
\* Granularity of the modelled clock, in minutes.
TickMinutes == 5

\* Most rows of a global distribution table whose country code is not a key
\* of the lookup table.
MaxUnknown == 2

\* Most rows of a suspect-drug table, and the largest count in one of its cells.
MaxSuspectRows == 2
MaxCount == 2

\* Most bundle loads the sessions served side by side start, and most of their
\* warehouse queries that do not return rows.
MaxLoads == 2
MaxFaults == 1

\* Values followed for one np.random.randint draw, spread over its range.
DrawPoints == 3

\* Calendar years in which the executive generator is followed.
FirstYear == 2025
LastYear == 2026

\* ------------------------------------------------------------- constants
\* ttl=15 * 60 seconds on both bundle loaders, expressed in minutes.
TtlMinutes == (15 * 60) \div 60

Pages == {"home", "fda", "healthcare"}
Pipelines == {"fda", "healthcare"}

\* Loaders of each bundle, in call order.
Loaders ==
    [fda |-> <<"volume", "top_drugs", "global_dist", "trends", "suspect_drugs">>,
     healthcare |-> <<"exec", "patient", "encounter", "claims", "financial", "geo">>]

Arity(p) == Len(Loaders[p])

\* LIMIT clause of each fixed query.
QueryLimit ==
    [fda |-> <<1000, 10, 20, 500, 10>>,
     healthcare |-> <<1000, 5000, 10000, 5000, 5000, 1000>>]

\* Row counts of the generated tables.
MockRows ==
    [fda |-> <<12, 10, 10, 26, 8>>,
     healthcare |-> <<24, 1000, 5000, 2000, 1000, 125>>]

\* ----------------------------------------------------------------- tables
\* The failure signal of an executor (Python None).
NoneSignal == [kind |-> "none"]

\* pd.DataFrame(): the table of the executor's empty-result branch.
\* It has no rows and no columns.
EmptyTable == [kind |-> "table", origin |-> "real", cols |-> "none", rows |-> 0]

\* A non-empty table returned by conn.query.  Redshift labels the columns with
\* the lower-case select-list names; the Snowflake views label them as stored.
RealTable(p, i) ==
    [kind |-> "table", origin |-> "real",
     cols |-> IF p = "fda" THEN "lower" ELSE "upper",
     rows |-> QueryLimit[p][i]]

\* Variant: the suspect-drug table is generated from the whole drugs list
\* instead of drugs[:8].
MockTable_all_drugs(p, i) ==
    [kind |-> "table", origin |-> "synthetic", cols |-> "lower",
     rows |-> IF p = "fda" /\ i = 5 THEN MockRows[p][2] ELSE MockRows[p][i]]

\* A generated table: pd.DataFrame(list of dicts with lower-case keys).
MockTable(p, i) ==
    [kind |-> "table", origin |-> "synthetic", cols |-> "lower", rows |-> MockRows[p][i]]

IsTable(t) == t.kind = "table"
IsSynthetic(t) == IsTable(t) /\ t.origin = "synthetic"
IsReal(t) == IsTable(t) /\ t.origin = "real"

\* ---------------------------------------------------------------- columns
\* Output column names of the five fixed Redshift queries (select-list names
\* and aliases).
QueryColumns ==
    <<{"total_reports", "serious_reports", "fatal_reports", "countries_affected", "report_month"},
      {"medicinalproduct", "generic_name", "report_count", "recovered_count", "fatal_count",
       "avg_age", "male_count", "female_count"},
      {"occurcountry", "report_count", "serious_reports", "fatal_reports",
       "unique_serious_reports"},
      {"receivedate", "total_reports", "serious_reports", "fatal_reports",
       "hospitalization_reports"},
      {"medicinalproduct", "generic_name", "drugcharacterization", "report_count",
       "recovered_count", "fatal_count", "unique_reports"}>>

\* Keys of the dicts the Pipeline A generator builds its five tables from.
FdaMockColumns ==
    <<{"total_reports", "serious_reports", "fatal_reports", "countries_affected", "report_month"},
      {"medicinalproduct", "generic_name", "report_count", "recovered_count", "fatal_count",
       "avg_age", "male_count", "female_count"},
      {"occurcountry", "report_count", "serious_reports", "fatal_reports",
       "unique_serious_reports"},
      {"receivedate", "total_reports", "serious_reports", "fatal_reports",
       "hospitalization_reports"},
      {"medicinalproduct", "generic_name", "drugcharacterization", "report_count",
       "recovered_count", "fatal_count", "unique_reports"}>>

\* Keys of the dicts the Pipeline B generator builds its six tables from.
HealthcareMockColumns ==
    <<{"month_date", "year", "month", "encounter_count", "unique_patients", "total_revenue",
       "avg_cost_per_encounter", "total_payer_coverage", "total_patient_payment",
       "avg_coverage_percentage", "encounter_class", "cost_category", "encounter_day_name",
       "state"},
      {"patient_id", "full_name", "age", "age_group", "gender", "gender_full", "race",
       "ethnicity", "marital_status", "state", "county", "city", "zip", "income",
       "income_level", "healthcare_expenses", "healthcare_coverage", "coverage_tier",
       "is_alive", "total_encounters", "total_medical_costs", "avg_cost_per_encounter",
       "total_out_of_pocket"},
      {"encounter_id", "encounter_date", "encounter_year", "encounter_month",
       "encounter_quarter", "encounter_day_of_week", "encounter_day_name", "encounter_class",
       "encounter_code", "encounter_description", "reason_code", "reason_description",
       "cost_category", "duration_minutes", "duration_hours", "base_encounter_cost",
       "total_claim_cost", "payer_coverage", "patient_out_of_pocket",
       "payer_coverage_percentage", "patient_id", "provider_id", "payer_id",
       "organization_id", "age", "age_group", "gender_full", "state", "income_level",
       "coverage_tier"},
      {"claim_id", "patient_id", "provider_id", "service_date", "service_year",
       "service_month", "service_quarter", "current_illness_date", "primary_insurance_id",
       "secondary_insurance_id", "insurance_coverage_type", "primary_status",
       "secondary_status", "patient_status", "primary_outstanding", "secondary_outstanding",
       "patient_outstanding", "total_outstanding", "outstanding_risk_level",
       "primary_last_billed_date", "secondary_last_billed_date", "patient_last_billed_date",
       "primary_claim_type", "secondary_claim_type", "age", "age_group", "gender_full",
       "state", "income_level", "coverage_tier", "diagnosis1", "diagnosis2", "diagnosis3",
       "diagnosis4", "diagnosis5", "diagnosis6", "diagnosis7", "diagnosis8",
       "diagnosis_count"},
      {"encounter_date", "encounter_year", "encounter_month", "encounter_quarter",
       "encounter_class", "cost_category", "patient_id", "provider_id", "payer_id",
       "base_encounter_cost", "total_claim_cost", "payer_coverage", "patient_out_of_pocket",
       "payer_coverage_percentage", "state", "county", "age_group", "gender_full",
       "income_level", "income", "healthcare_expenses", "healthcare_coverage",
       "total_claim_outstanding", "total_claims", "monthly_total_revenue",
       "monthly_payer_coverage", "monthly_patient_payment", "state_total_revenue",
       "state_payer_coverage", "state_patient_payment", "class_total_revenue",
       "payer_total_revenue", "avg_coverage_by_payer", "avg_coverage_by_income",
       "avg_coverage_by_age", "avg_cost_by_class", "avg_cost_by_provider",
       "patient_burden_percentage", "financial_burden_category"},
      {"state", "county", "city", "patient_count", "avg_age", "avg_income",
       "avg_coverage_rate", "total_expenses", "avg_expenses_per_patient", "encounter_count",
       "total_medical_costs", "avg_cost_per_encounter", "total_insurance_paid",
       "total_patient_paid", "avg_coverage_percentage", "unique_encounter_patients",
       "claim_count", "total_outstanding", "avg_outstanding_per_claim",
       "unique_claim_patients", "encounters_per_patient", "medical_cost_per_patient",
       "outstanding_per_patient", "outstanding_percentage", "geographic_risk_level"}>>

\* Variant: the Pipeline A generator leaves out generic_name, a column no
\* section of the page body looks up.
BaseColumns_no_generic_name(p, i, t) ==
    IF p = "fda"
    THEN (IF t.origin = "real" THEN QueryColumns[i]
          ELSE FdaMockColumns[i] \ {"generic_name"})
    ELSE HealthcareMockColumns[i]

\* Base names of the columns of table i of pipeline p.  The six Snowflake
\* queries are SELECT * over analytics views; the views carry the columns the
\* page body reads, which are the ones the generator reproduces.
BaseColumns(p, i, t) ==
    IF p = "fda"
    THEN (IF t.origin = "real" THEN QueryColumns[i] ELSE FdaMockColumns[i])
    ELSE HealthcareMockColumns[i]

\* Column labels of a table.  A label is a base name with its letter case;
\* df['name'] finds only the label whose case matches.
Columns(p, i, t) ==
    IF ~IsTable(t) \/ t.cols = "none"
    THEN {}
    ELSE {[base |-> c, case |-> t.cols] : c \in BaseColumns(p, i, t)}

\* df['c'] with a lower-case literal c finds a column: the table carries the
\* label with base name c in lower case.
HasColumn(p, i, t, c) ==
    IsTable(t) /\ t.cols = "lower" /\ c \in BaseColumns(p, i, t)

\* Variant: the labels are left as the warehouse stored them.
LowerCased_as_stored(t) == t

\* df.columns = df.columns.str.lower() on a table that has columns.
LowerCased(t) == [t EXCEPT !.cols = IF t.cols = "none" THEN "none" ELSE "lower"]

\* -------------------------------------------------------- query executors
\* What st.connection and conn.query can do in one executor call.
ConnOutcomes == {"connect_error", "query_error", "no_frame", "zero_rows", "rows"}

\* Variant: st.connection is called before the try block, so a connection
\* that cannot be acquired raises out of the executor.
execute_redshift_query_unguarded(i, outcome) ==
    IF outcome = "connect_error"
    THEN [ret |-> NoneSignal, notices |-> <<>>, raised |-> TRUE]
    ELSE IF outcome = "query_error"
    THEN [ret |-> NoneSignal, notices |-> <<"query_failed">>, raised |-> FALSE]
    ELSE IF outcome = "rows"
    THEN [ret |-> RealTable("fda", i), notices |-> <<>>, raised |-> FALSE]
    ELSE [ret |-> EmptyTable, notices |-> <<>>, raised |-> FALSE]

\* execute_redshift_query for the query of loader i: the value returned, the
\* notices emitted, and whether an exception left the function.
execute_redshift_query(i, outcome) ==
    IF outcome \in {"connect_error", "query_error"}
    THEN [ret |-> NoneSignal, notices |-> <<"query_failed">>, raised |-> FALSE]
    ELSE IF outcome = "rows"
    THEN [ret |-> RealTable("fda", i), notices |-> <<>>, raised |-> FALSE]
    ELSE [ret |-> EmptyTable, notices |-> <<>>, raised |-> FALSE]

\* Variant: the empty-result branch returns None instead of pd.DataFrame().
execute_snowflake_query_none_on_empty(i, outcome) ==
    IF outcome \in {"connect_error", "query_error"}
    THEN [ret |-> NoneSignal, notices |-> <<"query_failed">>, raised |-> FALSE]
    ELSE IF outcome = "rows"
    THEN [ret |-> RealTable("healthcare", i), notices |-> <<>>, raised |-> FALSE]
    ELSE [ret |-> NoneSignal, notices |-> <<>>, raised |-> FALSE]

\* execute_snowflake_query for the query of loader i.
execute_snowflake_query(i, outcome) ==
    IF outcome \in {"connect_error", "query_error"}
    THEN [ret |-> NoneSignal, notices |-> <<"query_failed">>, raised |-> FALSE]
    ELSE IF outcome = "rows"
    THEN [ret |-> RealTable("healthcare", i), notices |-> <<>>, raised |-> FALSE]
    ELSE [ret |-> EmptyTable, notices |-> <<>>, raised |-> FALSE]

\* A dataset loader passes its fixed query to the executor of its warehouse
\* and returns what the executor returns.
Loader(p, i, outcome) ==
    IF p = "fda" THEN execute_redshift_query(i, outcome)
    ELSE execute_snowflake_query(i, outcome)

\* ---------------------------------------------------------- bundle loaders
\* The generated bundle of pipeline p.
MockBundle(p) == [i \in 1..Arity(p) |-> MockTable(p, i)]

\* Variant: the fallback generates its bundle without telling the user.
load_fda_dashboard_data_silent(res) ==
    IF res[1] # NoneSignal /\ res[2] # NoneSignal
    THEN [ret |-> res, notices |-> <<>>, raised |-> FALSE]
    ELSE [ret |-> MockBundle("fda"), notices |-> <<>>, raised |-> FALSE]

\* Body of load_fda_dashboard_data once the five loaders have returned res.
load_fda_dashboard_data(res) ==
    IF res[1] # NoneSignal /\ res[2] # NoneSignal
    THEN [ret |-> res, notices |-> <<>>, raised |-> FALSE]
    ELSE [ret |-> MockBundle("fda"), notices |-> <<"mock_data">>, raised |-> FALSE]

\* Variant: the all-succeeded check looks at the first two tables only, as the
\* check of load_fda_dashboard_data does.
load_healthcare_dashboard_data_first_two(res, strOnEmpty) ==
    IF res[1] # NoneSignal /\ res[2] # NoneSignal
    THEN IF strOnEmpty \/ \A i \in 1..6 : IsTable(res[i]) => res[i].cols # "none"
         THEN [ret |-> [i \in 1..6 |-> IF IsTable(res[i]) THEN LowerCased(res[i])
                                        ELSE res[i]],
               notices |-> <<>>, raised |-> FALSE]
         ELSE [ret |-> res, notices |-> <<>>, raised |-> TRUE]
    ELSE [ret |-> MockBundle("healthcare"), notices |-> <<"mock_data">>, raised |-> FALSE]

\* Body of load_healthcare_dashboard_data once the six loaders have returned
\* res.  The labels of pd.DataFrame() are an object Index before pandas 2.0
\* and a RangeIndex from 2.0 on; .str is refused on a RangeIndex, so
\* strOnEmpty says whether the installed library accepts the lower-casing of
\* a table without columns.
load_healthcare_dashboard_data(res, strOnEmpty) ==
    IF \A i \in 1..6 : res[i] # NoneSignal
    THEN IF strOnEmpty \/ \A i \in 1..6 : res[i].cols # "none"
         THEN [ret |-> [i \in 1..6 |-> LowerCased(res[i])], notices |-> <<>>,
               raised |-> FALSE]
         ELSE [ret |-> res, notices |-> <<>>, raised |-> TRUE]
    ELSE [ret |-> MockBundle("healthcare"), notices |-> <<"mock_data">>, raised |-> FALSE]

\* Variant: the warning is emitted at the top of the bundle loader, before
\* the all-succeeded check.
BundleLoader_warn_first(p, res, strOnEmpty) ==
    LET r == IF p = "fda" THEN load_fda_dashboard_data(res)
             ELSE load_healthcare_dashboard_data(res, strOnEmpty)
    IN  [r EXCEPT !.notices = <<"mock_data">>]

\* The bundle loader of pipeline p run on the values its loaders returned.
BundleLoader(p, res, strOnEmpty) ==
    IF p = "fda" THEN load_fda_dashboard_data(res)
    ELSE load_healthcare_dashboard_data(res, strOnEmpty)

\* ------------------------------------------------------------- page bodies
\* The sections of the AWS + OpenFDA page body in rendering order: the tables
\* each one reads and the columns it looks up in them.  A section with ifRows
\* looks its columns up only when the table is not .empty and warns otherwise.
FdaSections ==
    <<[name |-> "volume", ifRows |-> FALSE,
       reads |-> {<<1, {"total_reports", "serious_reports", "fatal_reports", "report_month"}>>}],
      [name |-> "top_drugs", ifRows |-> FALSE,
       reads |-> {<<2, {"medicinalproduct", "report_count", "recovered_count", "fatal_count",
                        "avg_age", "male_count", "female_count"}>>}],
      [name |-> "global_dist", ifRows |-> FALSE,
       reads |-> {<<3, {"occurcountry", "report_count", "serious_reports", "fatal_reports"}>>}],
      [name |-> "weekly_trends", ifRows |-> FALSE,
       reads |-> {<<4, {"receivedate", "total_reports", "serious_reports",
                        "hospitalization_reports"}>>}],
      [name |-> "report_type", ifRows |-> TRUE,
       reads |-> {<<4, {"total_reports", "serious_reports", "fatal_reports",
                        "hospitalization_reports"}>>}],
      [name |-> "suspect_drugs", ifRows |-> FALSE,
       reads |-> {<<5, {"medicinalproduct", "report_count", "recovered_count"}>>}],
      [name |-> "data_sample", ifRows |-> FALSE,
       reads |-> {<<1, {}>>, <<2, {}>>, <<3, {}>>}]>>

\* The sections of the Snowflake + Synthea page body in rendering order.  The
\* KPI row tests 'name' in df.columns before each lookup, so it needs no column.
HealthcareSections ==
    <<[name |-> "kpis", ifRows |-> FALSE,
       reads |-> {<<1, {}>>, <<2, {}>>, <<4, {}>>, <<5, {}>>}],
      [name |-> "revenue_volume", ifRows |-> FALSE,
       reads |-> {<<1, {"month_date", "total_revenue", "total_payer_coverage",
                        "encounter_count"}>>}],
      [name |-> "demographics", ifRows |-> FALSE,
       reads |-> {<<2, {"age_group", "income_level", "healthcare_expenses", "state",
                        "healthcare_coverage"}>>}],
      [name |-> "encounters", ifRows |-> FALSE,
       reads |-> {<<3, {"provider_id", "total_claim_cost", "encounter_id", "duration_minutes",
                        "encounter_day_name"}>>}],
      [name |-> "claims", ifRows |-> FALSE,
       reads |-> {<<4, {"primary_status", "outstanding_risk_level", "total_outstanding"}>>}],
      [name |-> "financial", ifRows |-> FALSE,
       reads |-> {<<5, {"encounter_year", "encounter_month", "monthly_total_revenue",
                        "monthly_payer_coverage", "monthly_patient_payment",
                        "financial_burden_category"}>>}],
      [name |-> "geographic", ifRows |-> FALSE,
       reads |-> {<<6, {"state", "total_medical_costs", "total_outstanding", "city",
                        "geographic_risk_level"}>>}],
      [name |-> "data_sample", ifRows |-> FALSE,
       reads |-> {<<1, {}>>, <<2, {}>>, <<3, {}>>}]>>

Sections(p) == IF p = "fda" THEN FdaSections ELSE HealthcareSections

\* A section renders without raising: every table it reads is a table (a
\* method call or lookup on None raises) and carries the columns looked up.
SectionOk(p, b, s) ==
    \A r \in s.reads :
        /\ IsTable(b[r[1]])
        /\ \/ s.ifRows /\ (b[r[1]].rows = 0 \/ b[r[1]].cols = "none")
           \/ \A c \in r[2] : HasColumn(p, r[1], b[r[1]], c)

\* Number of sections rendered before the first one that raises.
Rendered(p, b) ==
    CHOOSE n \in 0..Len(Sections(p)) :
        /\ \A k \in 1..n : SectionOk(p, b, Sections(p)[k])
        /\ n < Len(Sections(p)) => ~SectionOk(p, b, Sections(p)[n + 1])

\* The page body of pipeline p run on bundle b: sections rendered, notices
\* emitted, and whether an exception ended the pass before the footer.
PageBody(p, b) ==
    LET n == Rendered(p, b)
        warns == IF p = "fda" /\ n >= 5 /\ (b[4].rows = 0 \/ b[4].cols = "none")
                 THEN <<"no_trend_data">> ELSE <<>>
    IN [section |-> n, notices |-> warns, raised |-> n < Len(Sections(p))]

\* ------------------------------------------------------------------ cache
\* st.cache_data keeps one entry per bundle loader (neither takes arguments):
\* the value returned and the time since it was stored, in minutes.  An age
\* that has reached the TTL stays there: only age < TTL is ever asked.
NoEntry == [present |-> FALSE]
Entry(v) == [present |-> TRUE, value |-> v, age |-> 0]
EmptyCache == [p \in Pipelines |-> NoEntry]

\* Variant: the call leaves the entries in place.
cache_data_clear_keeps(c) == c

\* st.cache_data.clear(): the cache of every st.cache_data function is
\* emptied.
cache_data_clear(c) == EmptyCache

\* Variant: a TTL of ten minutes.
IsFresh_ten_minutes(e) == e.present /\ e.age < 10

\* Variant: no TTL, an entry is served for as long as it exists.
IsFresh_no_ttl(e) == e.present

\* The entry still answers a call: it exists and is younger than the TTL.
IsFresh(e) == e.present /\ e.age < TtlMinutes

Aged(e) ==
    IF ~e.present THEN e
    ELSE [e EXCEPT !.age = IF e.age + TickMinutes >= TtlMinutes THEN TtlMinutes
                            ELSE e.age + TickMinutes]

NoBundle == <<>>

\* ----------------------------------------------------------- render passes
PassEnded == {"footer", "error"}

\* The server process before the first script run.
Started ==
    /\ page = "home"
    /\ pc = "idle"
    /\ lookup = "none"
    /\ results = <<>>
    /\ answer = "none"
    /\ bundle = NoBundle
    /\ cache = EmptyCache
    /\ notices = <<>>
    /\ calls = 0
    /\ invoked = <<>>
    /\ section = 0
    /\ trigger = [kind |-> "none", removed |-> {}]
    /\ degraded \in Pipelines

\* The two browser sessions of the side-by-side runs.
Sessions == {1, 2}

\* A session that has not run the script yet.
NewSession ==
    [page |-> "home", pc |-> "idle", lookup |-> "none", results |-> <<>>,
     bundle |-> NoBundle, load |-> 0]

\* No generator loop is being followed draw by draw.
NoGenerator ==
    /\ mock_row = <<>>
    /\ now = <<>>
    /\ exec_data = <<>>

\* Nothing is being followed on its own.
NoAside ==
    /\ sess = [s \in Sessions |-> NewSession]
    /\ loads = 0
    /\ faults = 0
    /\ frames = <<>>
    /\ NoGenerator

\* No section is being followed row by row.
NoDetail ==
    /\ NoAside
    /\ step = "outside"
    /\ global_dist_df = <<>>
    /\ map_df = <<>>
    /\ fig_map = <<>>
    /\ heatmap_df = <<>>
    /\ suspect_drugs_df = <<>>
    /\ top_suspect = <<>>

Init == Started /\ NoDetail

\* Variant: the lookup drops every entry that has outlived the TTL, whichever
\* bundle loader it belongs to.
BeginPass_evict_all(p, c) ==
    /\ page' = p
    /\ cache' = [q \in Pipelines |-> IF IsFresh(c[q]) THEN c[q] ELSE NoEntry]
    /\ degraded' = degraded
    /\ results' = <<>>
    /\ answer' = "none"
    /\ notices' = <<>>
    /\ calls' = 0
    /\ invoked' = <<>>
    /\ section' = 0
    /\ IF p = "home"
       THEN pc' = "footer" /\ bundle' = NoBundle /\ lookup' = "none"
       ELSE IF IsFresh(c[p])
            THEN pc' = "body" /\ bundle' = c[p].value /\ lookup' = "hit"
            ELSE /\ pc' = "load"
                 /\ bundle' = NoBundle
                 /\ lookup' = IF c[p].present THEN "expired" ELSE "absent"

\* A script run for page p against cache c, from its top to the point where
\* the page body has its bundle or the bundle loader starts on a miss.  The
\* Home page has no loader and runs to the footer.  An entry that has
\* outlived the TTL is not served and is dropped by the lookup.
BeginPass(p, c) ==
    /\ page' = p
    /\ cache' = IF p \in Pipelines /\ ~IsFresh(c[p]) THEN [c EXCEPT ![p] = NoEntry] ELSE c
    /\ degraded' = degraded
    /\ results' = <<>>
    /\ answer' = "none"
    /\ notices' = <<>>
    /\ calls' = 0
    /\ invoked' = <<>>
    /\ section' = 0
    /\ IF p = "home"
       THEN pc' = "footer" /\ bundle' = NoBundle /\ lookup' = "none"
       ELSE IF IsFresh(c[p])
            THEN pc' = "body" /\ bundle' = c[p].value /\ lookup' = "hit"
            ELSE /\ pc' = "load"
                 /\ bundle' = NoBundle
                 /\ lookup' = IF c[p].present THEN "expired" ELSE "absent"

\* The user opens or re-opens page p (first view, navigation, any rerun).
ViewPage(p) ==
    /\ pc \in PassEnded \cup {"idle"}
    /\ trigger' = [kind |-> "view", removed |-> {}]
    /\ BeginPass(p, cache)
    /\ UNCHANGED detail

\* Variant: the button drops the entry of the bundle loader of the page being
\* viewed and leaves the other one in place.
Refresh_current_page_only ==
    /\ pc \in PassEnded
    /\ trigger' = [kind |-> "refresh",
                   removed |-> {p \in Pipelines : p = page /\ cache[p].present}]
    /\ BeginPass(page, [p \in Pipelines |-> IF p = page THEN NoEntry ELSE cache[p]])
    /\ UNCHANGED detail

\* The refresh button: st.cache_data.clear() then st.rerun() of the page.
\* clear() empties the cache of every st.cache_data function.
Refresh ==
    /\ pc \in PassEnded
    /\ trigger' = [kind |-> "refresh", removed |-> {p \in Pipelines : cache[p].present}]
    /\ BeginPass(page, cache_data_clear(cache))
    /\ UNCHANGED detail

\* What the warehouse of pipeline p can answer to one query.
WarehouseOutcomes(p, d) == IF p = d THEN ConnOutcomes ELSE {"rows"}

\* Variant: once a loader has returned the failure signal the remaining
\* loaders of the bundle are skipped and count as failed.
CallLoader_short_circuit ==
    /\ pc = "load"
    /\ Len(results) < Arity(page)
    /\ IF \E k \in 1..Len(results) : results[k] = NoneSignal
       THEN /\ results' = Append(results, NoneSignal)
            /\ UNCHANGED <<answer, notices, calls, invoked, pc>>
       ELSE \E o \in WarehouseOutcomes(page, degraded) :
              LET r == Loader(page, Len(results) + 1, o)
              IN /\ answer' = o
                 /\ results' = Append(results, r.ret)
                 /\ notices' = notices \o r.notices
                 /\ calls' = calls + 1
                 /\ invoked' = Append(invoked, Loaders[page][Len(results) + 1])
                 /\ pc' = IF r.raised THEN "error" ELSE "load"
    /\ UNCHANGED <<page, lookup, bundle, cache, section, trigger, degraded, detail>>

\* The next dataset loader of the bundle runs its query.
CallLoader ==
    /\ pc = "load"
    /\ Len(results) < Arity(page)
    /\ \E o \in WarehouseOutcomes(page, degraded) :
         LET r == Loader(page, Len(results) + 1, o)
         IN /\ answer' = o
            /\ results' = Append(results, r.ret)
            /\ notices' = notices \o r.notices
            /\ calls' = calls + 1
            /\ invoked' = Append(invoked, Loaders[page][Len(results) + 1])
            /\ pc' = IF r.raised THEN "error" ELSE "load"
    /\ UNCHANGED <<page, lookup, bundle, cache, section, trigger, degraded, detail>>

\* Variant: a bundle made by the generators is returned but not memoized.
FinishLoad_real_only ==
    /\ pc = "load"
    /\ Len(results) = Arity(page)
    /\ \E strOnEmpty \in BOOLEAN :
         LET r == BundleLoader(page, results, strOnEmpty)
         IN /\ notices' = notices \o r.notices
            /\ IF r.raised
               THEN pc' = "error" /\ bundle' = NoBundle /\ cache' = cache
               ELSE /\ pc' = "body"
                    /\ bundle' = r.ret
                    /\ cache' = IF r.notices = <<>>
                                THEN [cache EXCEPT ![page] = Entry(r.ret)]
                                ELSE cache
    /\ UNCHANGED <<page, lookup, results, answer, calls, invoked, section, trigger, degraded,
                   detail>>

\* All loaders have returned: the all-succeeded check, the fallback, and the
\* memoization of the value returned.
FinishLoad ==
    /\ pc = "load"
    /\ Len(results) = Arity(page)
    /\ \E strOnEmpty \in BOOLEAN :
         LET r == BundleLoader(page, results, strOnEmpty)
         IN /\ notices' = notices \o r.notices
            /\ IF r.raised
               THEN pc' = "error" /\ bundle' = NoBundle /\ cache' = cache
               ELSE /\ pc' = "body"
                    /\ bundle' = r.ret
                    /\ cache' = [cache EXCEPT ![page] = Entry(r.ret)]
    /\ UNCHANGED <<page, lookup, results, answer, calls, invoked, section, trigger, degraded,
                   detail>>

\* The page body runs on the bundle, section by section, then the footer.
RenderBody ==
    /\ pc = "body"
    /\ LET r == PageBody(page, bundle)
       IN /\ section' = r.section
          /\ notices' = notices \o r.notices
          /\ pc' = IF r.raised THEN "error" ELSE "footer"
    /\ UNCHANGED <<page, lookup, results, answer, bundle, cache, calls, invoked, trigger,
                   degraded, detail>>

\* Time passes between render passes.
Tick ==
    /\ pc \in PassEnded
    /\ \E p \in Pipelines : cache[p].present /\ cache[p].age < TtlMinutes
    /\ cache' = [p \in Pipelines |-> Aged(cache[p])]
    /\ UNCHANGED <<page, pc, lookup, results, answer, bundle, notices, calls, invoked, section,
                   trigger, degraded, detail>>

Next ==
    \/ \E p \in Pages : ViewPage(p)
    \/ Refresh
    \/ CallLoader
    \/ FinishLoad
    \/ RenderBody
    \/ Tick

Spec == Init /\ [][Next]_vars

\* --------------------------------------------- global distribution section
\* Value of a cell that has no value (float nan).
NaN == "NaN"

\* The static lookup table from 2-letter to 3-letter country codes.
code_mapping ==
    ("US" :> "USA") @@ ("GB" :> "GBR") @@ ("CA" :> "CAN") @@ ("AU" :> "AUS") @@
    ("DE" :> "DEU") @@ ("FR" :> "FRA") @@ ("JP" :> "JPN") @@ ("IT" :> "ITA") @@
    ("ES" :> "ESP") @@ ("BR" :> "BRA") @@ ("CN" :> "CHN") @@ ("IN" :> "IND") @@
    ("MX" :> "MEX") @@ ("RU" :> "RUS") @@ ("ZA" :> "ZAF") @@ ("KR" :> "KOR") @@
    ("NL" :> "NLD") @@ ("CH" :> "CHE") @@ ("SE" :> "SWE") @@ ("AR" :> "ARG")

\* Rows kept by the heatmap table and by the bar chart: head(15).
HeadRows == 15

\* Variant: a code without an entry is mapped to itself.
map_iso_alpha_passthrough(df) ==
    [k \in 1..Len(df) |->
        [index |-> df[k].index,
         occurcountry |-> df[k].occurcountry,
         iso_alpha |-> IF df[k].occurcountry \in DOMAIN code_mapping
                       THEN code_mapping[df[k].occurcountry]
                       ELSE df[k].occurcountry]]

\* map_df = df.copy(); map_df['iso_alpha'] = map_df['occurcountry'].map(code_mapping).
\* Series.map with a dict gives nan for a value that is not a key.
map_iso_alpha(df) ==
    [k \in 1..Len(df) |->
        [index |-> df[k].index,
         occurcountry |-> df[k].occurcountry,
         iso_alpha |-> IF df[k].occurcountry \in DOMAIN code_mapping
                       THEN code_mapping[df[k].occurcountry]
                       ELSE NaN]]

\* df.dropna(subset=['iso_alpha']).
dropna_iso_alpha(df) == SelectSeq(df, LAMBDA r : r.iso_alpha # NaN)

\* df.head(n).
head(df, n) == SubSeq(df, 1, IF Len(df) < n THEN Len(df) ELSE n)

\* Variant: the heatmap table is built from the rows of the map.
heatmap_table_from_map(df) ==
    LET m == dropna_iso_alpha(map_iso_alpha(df))
    IN [k \in 1..Len(head(m, HeadRows)) |->
           [index |-> m[k].occurcountry, row |-> m[k].index]]

\* heatmap_df = df.head(15).set_index('occurcountry'): the country code
\* becomes the row label; row is the label the row had in df.
heatmap_table(df) ==
    [k \in 1..Len(head(df, HeadRows)) |->
        [index |-> df[k].occurcountry, row |-> df[k].index]]

\* Keys of the lookup table, in the order of the dict literal.
MappedCodes ==
    <<"US", "GB", "CA", "AU", "DE", "FR", "JP", "IT", "ES", "BR",
      "CN", "IN", "MX", "RU", "ZA", "KR", "NL", "CH", "SE", "AR">>

\* Country codes the lookup table has no entry for.
OtherCodes == <<"XK", "us", "AN", "EU">>

\* Subsets of S with at most k members.
RECURSIVE SubsetsUpTo(_, _)
SubsetsUpTo(S, k) ==
    IF k = 0 THEN {{}}
    ELSE LET smaller == SubsetsUpTo(S, k - 1)
         IN smaller \cup {x \cup {a} : x \in smaller, a \in S}

\* A result of the global distribution query with n rows, one per country
\* (GROUP BY occurcountry), whose rows at the positions in U carry codes
\* outside the lookup table.  The other columns play no part in the mapping.
GlobalDistResult(n, U) ==
    LET Rank(k) == Cardinality({j \in U : j <= k})
    IN [k \in 1..n |->
           [index |-> k - 1,
            occurcountry |-> IF k \in U THEN OtherCodes[Rank(k)]
                             ELSE MappedCodes[k - Rank(k)]]]

\* The page body is about to run the section on a table with rows: any
\* number of rows up to the LIMIT of the query.
GlobalDistInit ==
    /\ Started
    /\ step = "global_dist"
    /\ \E n \in 1..QueryLimit["fda"][3] :
         \E U \in SubsetsUpTo(1..n, MaxUnknown) :
             global_dist_df = GlobalDistResult(n, U)
    /\ NoAside
    /\ map_df = <<>>
    /\ fig_map = <<>>
    /\ heatmap_df = <<>>
    /\ suspect_drugs_df = <<>>
    /\ top_suspect = <<>>

\* The column of the section that holds the map and the heatmap table.
RenderGlobalDistribution ==
    /\ step = "global_dist"
    /\ map_df' = map_iso_alpha(global_dist_df)
    /\ fig_map' = dropna_iso_alpha(map_df')
    /\ heatmap_df' = heatmap_table(global_dist_df)
    /\ step' = "done"
    /\ UNCHANGED <<page, pc, lookup, results, answer, bundle, cache, notices, calls, invoked,
                   section, trigger, degraded, global_dist_df, suspect_drugs_df, top_suspect,
                   aside>>

GlobalDistNext == RenderGlobalDistribution

GlobalDistSpec == GlobalDistInit /\ [][GlobalDistNext]_vars

\* --------------------------------------------------- suspect drugs section
\* A float64 cell: a finite value kept in tenths (the column is rounded to one
\* decimal), nan, or inf.
Float(tenths) == [kind |-> "float", tenths |-> tenths]
FloatNaN == [kind |-> "nan"]
FloatInf == [kind |-> "inf"]

\* round(1) of num / den * 100 for den > 0, in tenths, halves to even.
RoundedPercent(num, den) ==
    LET q == (num * 1000) \div den
        r == (num * 1000) % den
    IN IF 2 * r > den \/ (2 * r = den /\ q % 2 = 1) THEN q + 1 ELSE q

\* One cell of (recovered_count / report_count * 100).round(1).  The columns
\* are numeric Series: their division follows IEEE 754, so a zero divisor
\* raises nothing and gives nan for 0 / 0 and inf for a positive dividend.
recovery_rate(recovered_count, report_count) ==
    IF report_count # 0
    THEN [raised |-> FALSE, value |-> Float(RoundedPercent(recovered_count, report_count))]
    ELSE IF recovered_count = 0
    THEN [raised |-> FALSE, value |-> FloatNaN]
    ELSE [raised |-> FALSE, value |-> FloatInf]

\* Rows shown by the two suspect-drug charts: head(10).
SuspectHead == 10

\* Tables of at most n suspect-drug rows; the columns other than the two
\* counts play no part in the rate.
SuspectTables(n) ==
    UNION {[1..k -> [recovered_count : 0..MaxCount, report_count : 0..MaxCount]] : k \in 1..n}

\* The page body is about to run the recovery-rate column on a table with rows.
RecoveryInit ==
    /\ Started
    /\ step = "suspect_drugs"
    /\ suspect_drugs_df \in SuspectTables(MaxSuspectRows)
    /\ NoAside
    /\ top_suspect = <<>>
    /\ global_dist_df = <<>>
    /\ map_df = <<>>
    /\ fig_map = <<>>
    /\ heatmap_df = <<>>

\* top_suspect = suspect_drugs_df.head(10).copy() and its recovery_rate column.
RenderRecoveryRate ==
    /\ step = "suspect_drugs"
    /\ LET rows == head(suspect_drugs_df, SuspectHead)
           rate(k) == recovery_rate(rows[k].recovered_count, rows[k].report_count)
       IN IF \E k \in 1..Len(rows) : rate(k).raised
          THEN step' = "error" /\ top_suspect' = <<>>
          ELSE /\ step' = "done"
               /\ top_suspect' =
                     [k \in 1..Len(rows) |->
                         [recovered_count |-> rows[k].recovered_count,
                          report_count |-> rows[k].report_count,
                          recovery_rate |-> rate(k).value]]
    /\ UNCHANGED <<page, pc, lookup, results, answer, bundle, cache, notices, calls, invoked,
                   section, trigger, degraded, global_dist_df, map_df, fig_map, heatmap_df,
                   suspect_drugs_df, aside>>

RecoveryNext == RenderRecoveryRate

RecoverySpec == RecoveryInit /\ [][RecoveryNext]_vars

\* ------------------------------------------------- sessions side by side
\* Streamlit runs the script of each browser session in a thread of its own;
\* the st.cache_data entries are shared by all of them.  A table is kept with
\* the number of the bundle load whose loader call or generator made it.
\* The TTL plays no part here: no time passes in these behaviours.
Made(t, n) == [table |-> t, load |-> n]

Tables(b) == [i \in 1..Len(b) |-> b[i].table]

\* The main thread's pass variables, which the sessions do not touch.
pass == <<page, pc, lookup, results, answer, bundle, notices, calls, invoked, section, trigger>>

\* Variant: the loader outputs are kept in one list that every load in
\* progress for the page appends to.
StoreResult_shared(ss, s, r) ==
    [t \in Sessions |->
        IF ss[t].pc = "load" /\ ss[t].page = ss[s].page
        THEN [ss[t] EXCEPT !.results = Append(@, r)]
        ELSE ss[t]]

\* volume_df = load_fda_volume_analysis() and the like: the value returned is
\* bound to a local variable of the call of the bundle loader.
StoreResult(ss, s, r) == [ss EXCEPT ![s].results = Append(@, r)]

\* Session s starts a script run for page p against cache c.
SessionBegin(s, p, c) ==
    IF p = "home"
    THEN /\ sess' = [sess EXCEPT ![s] = [NewSession EXCEPT !.pc = "footer", !.load = sess[s].load]]
         /\ loads' = loads
    ELSE IF IsFresh(c[p])
    THEN /\ sess' = [sess EXCEPT ![s] = [page |-> p, pc |-> "body", lookup |-> "hit",
                                         results |-> <<>>, bundle |-> c[p].value,
                                         load |-> sess[s].load]]
         /\ loads' = loads
    ELSE /\ loads < MaxLoads
         /\ sess' = [sess EXCEPT ![s] = [page |-> p, pc |-> "load", lookup |-> "absent",
                                         results |-> <<>>, bundle |-> NoBundle,
                                         load |-> loads + 1]]
         /\ loads' = loads + 1

SessionViewPage(s, p) ==
    /\ sess[s].pc \in PassEnded \cup {"idle"}
    /\ SessionBegin(s, p, cache)
    /\ UNCHANGED <<cache, faults>>

\* The refresh button in session s.
SessionRefresh(s) ==
    /\ sess[s].pc \in PassEnded
    /\ cache' = EmptyCache
    /\ SessionBegin(s, sess[s].page, EmptyCache)
    /\ UNCHANGED faults

\* The next dataset loader of the bundle load of session s runs its query.
SessionCallLoader(s) ==
    /\ sess[s].pc = "load"
    /\ Len(sess[s].results) < Arity(sess[s].page)
    /\ \E o \in WarehouseOutcomes(sess[s].page, degraded) :
         /\ o # "rows" => faults < MaxFaults
         /\ faults' = IF o = "rows" THEN faults ELSE faults + 1
         /\ sess' = StoreResult(sess, s,
                         Made(Loader(sess[s].page, Len(sess[s].results) + 1, o).ret,
                              sess[s].load))
    /\ UNCHANGED <<cache, loads>>

\* The bundle load of session s returns, which ends the life of its local
\* variables, and st.cache_data stores its value.
SessionFinishLoad(s) ==
    /\ sess[s].pc = "load"
    /\ Len(sess[s].results) = Arity(sess[s].page)
    /\ \E strOnEmpty \in BOOLEAN :
         LET p == sess[s].page
             res == sess[s].results
             r == BundleLoader(p, Tables(res), strOnEmpty)
             b == [i \in 1..Len(r.ret) |->
                      IF IsTable(r.ret[i]) /\ IsSynthetic(r.ret[i])
                      THEN Made(r.ret[i], sess[s].load)
                      ELSE Made(r.ret[i], res[i].load)]
         IN IF r.raised
            THEN /\ sess' = [sess EXCEPT ![s].pc = "error", ![s].results = <<>>]
                 /\ cache' = cache
            ELSE /\ sess' = [sess EXCEPT ![s].pc = "body", ![s].bundle = b,
                                         ![s].results = <<>>]
                 /\ cache' = [cache EXCEPT ![p] = Entry(b)]
    /\ UNCHANGED <<loads, faults>>

\* The page body of session s runs on its bundle.
SessionRenderBody(s) ==
    /\ sess[s].pc = "body"
    /\ sess' = [sess EXCEPT ![s].pc =
                   IF PageBody(sess[s].page, Tables(sess[s].bundle)).raised
                   THEN "error" ELSE "footer"]
    /\ UNCHANGED <<cache, loads, faults>>

SessionsInit ==
    /\ Started
    /\ NoAside
    /\ step = "outside"
    /\ global_dist_df = <<>>
    /\ map_df = <<>>
    /\ fig_map = <<>>
    /\ heatmap_df = <<>>
    /\ suspect_drugs_df = <<>>
    /\ top_suspect = <<>>

SessionsNext ==
    /\ \E s \in Sessions :
         \/ \E p \in Pages : SessionViewPage(s, p)
         \/ SessionRefresh(s)
         \/ SessionCallLoader(s)
         \/ SessionFinishLoad(s)
         \/ SessionRenderBody(s)
    /\ UNCHANGED <<pass, degraded, step, global_dist_df, map_df, fig_map, heatmap_df,
                   suspect_drugs_df, top_suspect, mock_row, now, exec_data, frames>>

SessionsSpec == SessionsInit /\ [][SessionsNext]_vars

\* ------------------------------------------------ generator loops, counts
\* np.random.randint(low, high) draws from low..high-1; the values followed
\* are DrawPoints of them, the first and the last of the range included.
randint(low, high) ==
    {low + (k * (high - 1 - low)) \div (DrawPoints - 1) : k \in 0..(DrawPoints - 1)}

\* The count keys of a top-drugs dict and of a suspect-drugs dict, in the
\* order of the dict literal, with the arguments of their randint calls.
MockCountKeys == <<"report_count", "recovered_count", "fatal_count">>

MockCountArgs ==
    [top_drugs |-> [report_count |-> <<100, 1000>>, recovered_count |-> <<50, 800>>,
                    fatal_count |-> <<0, 20>>],
     suspect_drugs |-> [report_count |-> <<80, 800>>, recovered_count |-> <<40, 600>>,
                        fatal_count |-> <<0, 15>>]]

\* Variant: an outcome count is drawn again until it does not exceed the
\* report count of its row.
CountDraws_capped(table, key, row) ==
    {v \in randint(MockCountArgs[table][key][1], MockCountArgs[table][key][2]) :
        key = "report_count" \/ v <= row.report_count}

\* Values the generator can give to count key of a row of table, the dict
\* being row so far: one randint call, whatever the earlier draws were.
CountDraws(table, key, row) ==
    randint(MockCountArgs[table][key][1], MockCountArgs[table][key][2])

\* The fallback branch is entered, for one row of one of the two tables.
GeneratorInit ==
    /\ Started
    /\ step = "fallback"
    /\ mock_row \in {[table |-> t] : t \in {"top_drugs", "suspect_drugs"}}
    /\ now = <<>>
    /\ exec_data = <<>>
    /\ sess = [s \in Sessions |-> NewSession]
    /\ loads = 0
    /\ faults = 0
    /\ frames = <<>>
    /\ global_dist_df = <<>>
    /\ map_df = <<>>
    /\ fig_map = <<>>
    /\ heatmap_df = <<>>
    /\ suspect_drugs_df = <<>>
    /\ top_suspect = <<>>

\* st.warning("Using mock data ..."), the first statement of the branch.
WarnMock ==
    /\ step = "fallback"
    /\ notices' = Append(notices, "mock_data")
    /\ step' = "generate"
    /\ UNCHANGED <<page, pc, lookup, results, answer, bundle, cache, calls, invoked, section,
                   trigger, degraded, global_dist_df, map_df, fig_map, heatmap_df,
                   suspect_drugs_df, top_suspect, aside>>

\* The next count of the dict literal is drawn and comes out as v.
DrawCount(key, v) ==
    /\ step = "generate"
    /\ Cardinality(DOMAIN mock_row) <= Len(MockCountKeys)
    /\ key = MockCountKeys[Cardinality(DOMAIN mock_row)]
    /\ v \in CountDraws(mock_row.table, key, mock_row)
    /\ mock_row' = mock_row @@ (key :> v)
    /\ UNCHANGED <<pass, cache, degraded, step, global_dist_df, map_df, fig_map, heatmap_df,
                   suspect_drugs_df, top_suspect, sess, loads, faults, now, exec_data,
                   frames>>

\* The row is handed to the page body as a one-row table: a suspect-drugs
\* row gets its recovery rate, a top-drugs row is charted as it is.
UseMockRow ==
    /\ step = "generate"
    /\ Cardinality(DOMAIN mock_row) = Len(MockCountKeys) + 1
    /\ step' = "done"
    /\ IF mock_row.table = "suspect_drugs"
       THEN /\ suspect_drugs_df' = <<[recovered_count |-> mock_row.recovered_count,
                                      report_count |-> mock_row.report_count]>>
            /\ top_suspect' =
                  <<[recovered_count |-> mock_row.recovered_count,
                     report_count |-> mock_row.report_count,
                     recovery_rate |->
                         recovery_rate(mock_row.recovered_count, mock_row.report_count).value]>>
       ELSE UNCHANGED <<suspect_drugs_df, top_suspect>>
    /\ UNCHANGED <<pass, cache, degraded, global_dist_df, map_df, fig_map, heatmap_df,
                   sess, loads, faults, mock_row, now, exec_data, frames>>

GeneratorNext ==
    \/ WarnMock
    \/ \E key \in {"report_count", "recovered_count", "fatal_count"} :
          \E v \in 0..1000 : DrawCount(key, v)
    \/ UseMockRow

GeneratorSpec == GeneratorInit /\ [][GeneratorNext]_vars

\* ------------------------------------------- generator loop, executive rows
\* for i in range(24)
ExecMonths == 24

\* timestamp - pd.DateOffset(months=i), as the calendar month it falls in.
MonthsBefore(timestamp, i) ==
    LET total == timestamp.year * 12 + (timestamp.month - 1) - i
    IN  [year |-> total \div 12, month |-> (total % 12) + 1]

\* The date keys of the dict appended for index i when the clock reads
\* timestamp.
ExecRow(timestamp, i) ==
    [i |-> i,
     month_date |-> MonthsBefore(timestamp, i),
     year |-> timestamp.year - (i \div 12),
     month |-> timestamp.month - (i % 12)]

\* The executive generator starts with an empty list, in some month.
ExecDatesInit ==
    /\ Started
    /\ step = "exec_data"
    /\ now \in [year : FirstYear..LastYear, month : 1..12]
    /\ exec_data = <<>>
    /\ mock_row = <<>>
    /\ sess = [s \in Sessions |-> NewSession]
    /\ loads = 0
    /\ faults = 0
    /\ frames = <<>>
    /\ global_dist_df = <<>>
    /\ map_df = <<>>
    /\ fig_map = <<>>
    /\ heatmap_df = <<>>
    /\ suspect_drugs_df = <<>>
    /\ top_suspect = <<>>

\* One iteration of the loop: the dict for the next index is appended.
AppendExecRow ==
    /\ step = "exec_data"
    /\ Len(exec_data) < ExecMonths
    /\ exec_data' = Append(exec_data, ExecRow(now, Len(exec_data)))
    /\ UNCHANGED <<pass, cache, degraded, step, global_dist_df, map_df, fig_map, heatmap_df,
                   suspect_drugs_df, top_suspect, sess, loads, faults, mock_row, now,
                   frames>>

ExecDatesNext == AppendExecRow

ExecDatesSpec == ExecDatesInit /\ [][ExecDatesNext]_vars

\* ------------------------------------------- page bodies, local tables
\* The statements of the two page bodies that bind a local name to a table
\* made from a table of the bundle, or write to the table a local name is
\* bound to, in source order.  A bind gives the bundle table the expression
\* starts from and the methods chained on it; an assign adds a column
\* (name[column] = ...), a relabel replaces the labels (name.columns = [...]).
FdaStatements ==
    <<[line |-> 361, op |-> "bind", name |-> "volume_trend", from |-> 1,
       via |-> <<"groupby", "sum", "reset_index">>],
      [line |-> 381, op |-> "bind", name |-> "top_outcomes", from |-> 2,
       via |-> <<"head", "getitem">>],
      [line |-> 394, op |-> "bind", name |-> "top_demographics", from |-> 2,
       via |-> <<"head", "getitem">>],
      [line |-> 413, op |-> "bind", name |-> "top_countries", from |-> 3, via |-> <<"head">>],
      [line |-> 435, op |-> "bind", name |-> "map_df", from |-> 3, via |-> <<"copy">>],
      [line |-> 436, op |-> "assign", name |-> "map_df", column |-> "iso_alpha"],
      [line |-> 455, op |-> "bind", name |-> "heatmap_df", from |-> 3,
       via |-> <<"head", "set_index">>],
      [line |-> 508, op |-> "bind", name |-> "top_suspect", from |-> 5, via |-> <<"head">>],
      [line |-> 521, op |-> "bind", name |-> "top_suspect", from |-> 5,
       via |-> <<"head", "copy">>],
      [line |-> 522, op |-> "assign", name |-> "top_suspect", column |-> "recovery_rate"]>>

HealthcareStatements ==
    <<[line |-> 876, op |-> "bind", name |-> "monthly_revenue", from |-> 1,
       via |-> <<"groupby", "sum", "reset_index">>],
      [line |-> 888, op |-> "bind", name |-> "monthly_volume", from |-> 1,
       via |-> <<"groupby", "sum", "reset_index">>],
      [line |-> 906, op |-> "bind", name |-> "age_dist", from |-> 2,
       via |-> <<"value_counts", "reset_index">>],
      [line |-> 907, op |-> "relabel", name |-> "age_dist", column |-> "AGE_GROUP"],
      [line |-> 913, op |-> "bind", name |-> "income_stats", from |-> 2,
       via |-> <<"groupby", "mean", "reset_index">>],
      [line |-> 926, op |-> "bind", name |-> "state_cov", from |-> 2,
       via |-> <<"groupby", "mean", "sort_values", "head", "reset_index">>],
      [line |-> 955, op |-> "bind", name |-> "provider_metrics", from |-> 3,
       via |-> <<"groupby", "agg", "reset_index">>],
      [line |-> 961, op |-> "relabel", name |-> "provider_metrics", column |-> "PROVIDER_ID"],
      [line |-> 978, op |-> "bind", name |-> "daily_counts", from |-> 3,
       via |-> <<"value_counts", "reindex", "reset_index">>],
      [line |-> 979, op |-> "relabel", name |-> "daily_counts", column |-> "Day"],
      [line |-> 992, op |-> "bind", name |-> "status_dist", from |-> 4,
       via |-> <<"value_counts", "reset_index">>],
      [line |-> 993, op |-> "relabel", name |-> "status_dist", column |-> "Status"],
      [line |-> 999, op |-> "bind", name |-> "risk_dist", from |-> 4,
       via |-> <<"groupby", "sum", "reset_index">>],
      [line |-> 1020, op |-> "bind", name |-> "monthly_fin", from |-> 5,
       via |-> <<"groupby", "mean", "reset_index">>],
      [line |-> 1021, op |-> "assign", name |-> "monthly_fin", column |-> "Date"],
      [line |-> 1031, op |-> "bind", name |-> "burden_dist", from |-> 5,
       via |-> <<"value_counts", "reset_index">>],
      [line |-> 1032, op |-> "relabel", name |-> "burden_dist", column |-> "Category"],
      [line |-> 1052, op |-> "bind", name |-> "state_costs", from |-> 6,
       via |-> <<"groupby", "sum", "reset_index">>],
      [line |-> 1069, op |-> "bind", name |-> "top_cities", from |-> 6,
       via |-> <<"sort_values", "head">>]>>

Statements(p) == IF p = "fda" THEN FdaStatements ELSE HealthcareStatements

\* Variant: .copy() hands back the table it was called on.
NewObject_copy_shares(method) == method # "copy"

\* Every pandas method the page bodies chain on a bundle table returns a new
\* table object; none of them hands back the table it was called on.
NewObject(method) == TRUE

\* The bundle table a chain of methods applied to table i ends on: 0 when a
\* method of the chain made a new object, i when none did.
BoundTo(i, via) == IF \E k \in 1..Len(via) : NewObject(via[k]) THEN 0 ELSE i

\* A bundle table after an item assignment or a relabelling on it.
WrittenTable(t) == [t EXCEPT !.cols = "written"]

\* Bundles a page body of page p can be handed.
BodyBundles(p) ==
    {MockBundle(p), [i \in 1..Arity(p) |-> LowerCased(RealTable(p, i))]}

\* A page body starts on a bundle served from the cache.
FramesInit ==
    /\ page \in Pipelines
    /\ bundle \in BodyBundles(page)
    /\ cache = [EmptyCache EXCEPT ![page] = Entry(bundle)]
    /\ pc = "body"
    /\ lookup = "hit"
    /\ results = <<>>
    /\ answer = "none"
    /\ notices = <<>>
    /\ calls = 0
    /\ invoked = <<>>
    /\ section = 0
    /\ trigger = [kind |-> "view", removed |-> {}]
    /\ degraded \in Pipelines
    /\ step = "statements"
    /\ frames = <<>>
    /\ sess = [s \in Sessions |-> NewSession]
    /\ loads = 0
    /\ faults = 0
    /\ NoGenerator
    /\ global_dist_df = <<>>
    /\ map_df = <<>>
    /\ fig_map = <<>>
    /\ heatmap_df = <<>>
    /\ suspect_drugs_df = <<>>
    /\ top_suspect = <<>>

\* The next statement of the list runs.  A write lands in the object the
\* name is bound to: in a table of the bundle if the name is bound to one.
RunStatement ==
    /\ step = "statements"
    /\ section < Len(Statements(page))
    /\ LET st == Statements(page)[section + 1]
       IN IF st.op = "bind"
          THEN /\ frames' = (st.name :> [of |-> BoundTo(st.from, st.via), written |-> {}])
                               @@ frames
               /\ bundle' = bundle
          ELSE /\ frames' = [frames EXCEPT ![st.name].written = @ \cup {st.column}]
               /\ bundle' = IF frames[st.name].of = 0 THEN bundle
                             ELSE [bundle EXCEPT ![frames[st.name].of] = WrittenTable(@)]
    /\ section' = section + 1
    /\ UNCHANGED <<page, pc, lookup, results, answer, cache, notices, calls, invoked, trigger,
                   degraded, step, global_dist_df, map_df, fig_map, heatmap_df,
                   suspect_drugs_df, top_suspect, sess, loads, faults, mock_row, now,
                   exec_data>>

FramesNext == RunStatement

FramesSpec == FramesInit /\ [][FramesNext]_vars

\* ---------------------------------------------------------------- helpers
\* Positions of the loaders that returned the failure signal.
Failed(res) == {i \in 1..Len(res) : res[i] = NoneSignal}

\* Number of notices of kind k emitted so far in the pass.
Count(k, seq) == Cardinality({j \in 1..Len(seq) : seq[j] = k})

ZeroRow(t) == IsTable(t) /\ t.rows = 0

\* The bundle loader of the selected page ran in this pass: its loaders all
\* returned and its body has been executed.
LoadDone ==
    /\ page \in Pipelines
    /\ pc \in {"body", "footer", "error"}
    /\ Len(results) = Arity(page)

FullySynthetic(p, b) ==
    /\ b # NoBundle
    /\ Len(b) = Arity(p)
    /\ \A i \in 1..Arity(p) : IsSynthetic(b[i])

\* Fixed arity, tables only, all real or all synthetic.
WellFormed(p, b) ==
    /\ Len(b) = Arity(p)
    /\ \A i \in 1..Len(b) : IsTable(b[i])
    /\ \/ \A i \in 1..Len(b) : IsReal(b[i])
       \/ \A i \in 1..Len(b) : IsSynthetic(b[i])

\* A step that starts a render pass of pipeline page p.
PassStarts(p) ==
    /\ pc \in PassEnded \cup {"idle"}
    /\ pc' \in {"body", "load"}
    /\ page' = p

\* ------------------------------------------------------------------ claims
\* C1: in load_fda_dashboard_data, whenever at least one of the five Redshift
\* loaders returned None, the bundle returned is fully synthetic (five
\* generated tables, no real loader output, no None).
C1_FdaAllOrNothing ==
    (LoadDone /\ page = "fda" /\ Failed(results) # {}) => FullySynthetic("fda", bundle)

\* C2: in load_healthcare_dashboard_data, whenever at least one of the six
\* Snowflake loaders returned None, the bundle returned is fully synthetic.
C2_HealthcareAllOrNothing ==
    (LoadDone /\ page = "healthcare" /\ Failed(results) # {})
        => FullySynthetic("healthcare", bundle)

\* A Pipeline B load in which only a late loader (encounters) failed fell back
\* to the generated bundle.
C2_Witness ==
    /\ LoadDone
    /\ page = "healthcare"
    /\ Failed(results) = {3}
    /\ IsReal(results[1])
    /\ FullySynthetic("healthcare", bundle)

\* C3: every bundle in the cache or in the hands of a page body has its fixed
\* arity, only tables as members, and members all real or all synthetic.
C3_BundleWellFormed ==
    /\ \A p \in Pipelines : cache[p].present => WellFormed(p, cache[p].value)
    /\ (page \in Pipelines /\ bundle # NoBundle) => WellFormed(page, bundle)

\* C4: when every loader of the bundle succeeded (zero-row tables included),
\* the bundle loader returns those outputs in loader order: same rows, same
\* column names for Pipeline A, column names in lower case for Pipeline B.
C4_RealBundleUnmodified ==
    (LoadDone /\ Failed(results) = {}) =>
        /\ bundle # NoBundle
        /\ Len(bundle) = Arity(page)
        /\ \A i \in 1..Arity(page) :
             /\ IsReal(bundle[i])
             /\ bundle[i].rows = results[i].rows
             /\ {c.base : c \in Columns(page, i, bundle[i])}
                   = {c.base : c \in Columns(page, i, results[i])}
             /\ page = "fda" => bundle[i] = results[i]
             /\ page = "healthcare" =>
                   \A c \in Columns(page, i, bundle[i]) : c.case = "lower"

\* C5: an executor never lets a failure escape: when the connection or the
\* query raises, it returns None and emits one failure notice, and the pass
\* is never ended by an exception in the middle of the loader calls.
C5_ExecutorContainsFailure ==
    /\ answer \in {"connect_error", "query_error"} =>
          (Len(results) > 0 /\ results[Len(results)] = NoneSignal)
    /\ Count("query_failed", notices) = Cardinality(Failed(results))
    /\ ~(page \in Pipelines /\ pc = "error" /\ calls > 0 /\ calls < Arity(page))

\* A loader call in which the connection could not be acquired returned None
\* with one notice, and the bundle load goes on.
C5_Witness ==
    /\ pc = "load"
    /\ answer = "connect_error"
    /\ results[Len(results)] = NoneSignal
    /\ Count("query_failed", notices) = 1
    /\ Len(results) < Arity(page)

\* C6: a query that succeeds with zero rows yields a zero-row table, not None,
\* and no failure notice; a bundle whose loaders all succeeded with zero rows
\* does not trigger the synthetic fallback.
C6_ZeroRowsIsSuccess ==
    /\ answer = "zero_rows" =>
          (Len(results) > 0 /\ ZeroRow(results[Len(results)]))
    /\ (\A i \in 1..Len(results) : ZeroRow(results[i])) =>
          Count("query_failed", notices) = 0
    /\ (LoadDone /\ \A i \in 1..Len(results) : ZeroRow(results[i])) =>
          /\ Count("mock_data", notices) = 0
          /\ bundle # NoBundle => \A i \in 1..Len(bundle) : ~IsSynthetic(bundle[i])

\* A bundle load whose loaders all came back with zero rows returned the
\* zero-row tables.
C6_Witness ==
    /\ LoadDone
    /\ answer = "zero_rows"
    /\ \A i \in 1..Len(results) : ZeroRow(results[i])
    /\ bundle # NoBundle
    /\ \A i \in 1..Len(bundle) : ZeroRow(bundle[i]) /\ IsReal(bundle[i])

\* C7: when every loader succeeded and at least one returned the table of the
\* executor's empty-result branch, the page body given that bundle does not
\* raise.
C7_RendersZeroRows ==
    (/\ page \in Pipelines
     /\ Len(results) = Arity(page)
     /\ Failed(results) = {}
     /\ \E i \in 1..Len(results) : ZeroRow(results[i])
     /\ bundle # NoBundle)
        => pc # "error"

\* C8: whatever the failure / success combination of the loaders, a render
\* pass of a pipeline page never ends with an unhandled error.
C8_PageAlwaysRenders ==
    (/\ page \in Pipelines
     /\ \A i \in 1..Len(results) : ~ZeroRow(results[i])
     /\ \A i \in 1..Len(bundle) : ~ZeroRow(bundle[i]))
        => pc # "error"

\* C9: a call of a bundle loader whose entry is less than 15 minutes old, with
\* no manual clear, calls no loader and no executor and returns the content
\* stored by the load that made the entry; an entry keeps its content for as
\* long as it is in the cache.
C9_CacheHitWithinTtl ==
    [][\A p \in Pipelines :
        /\ (PassStarts(p) /\ cache[p].present /\ cache[p].age < 15) =>
              \/ /\ pc' = "body"
                 /\ lookup' = "hit"
                 /\ calls' = 0
                 /\ results' = <<>>
                 /\ bundle' = cache[p].value
                 /\ cache' = cache
              \/ lookup' = "absent" /\ cache' = EmptyCache
        /\ (cache[p].present /\ cache'[p].present /\ ~(pc = "load" /\ page = p)) =>
              cache'[p].value = cache[p].value
        /\ (pc' \in {"body", "footer", "error"} /\ page' = p /\ lookup' = "hit") =>
              (calls' = 0 /\ results' = <<>>)]_vars

\* A page body received its bundle from an entry stored 10 minutes earlier,
\* without any loader call, after a visit to another page.
C9_Witness ==
    /\ page \in Pipelines
    /\ pc = "body"
    /\ lookup = "hit"
    /\ calls = 0
    /\ cache[page].present
    /\ cache[page].age >= 10
    /\ cache[page].age < 15
    /\ bundle = cache[page].value
    /\ \E q \in Pipelines \ {page} : cache[q].present

C11_RefreshClearsAll ==
    [][/\ (trigger'.kind = "refresh" /\ trigger' # trigger) =>
             /\ pc \in PassEnded
             /\ page' = page
             /\ cache' = EmptyCache
             /\ results' = <<>> /\ calls' = 0 /\ section' = 0
             /\ pc' = IF page \in Pipelines THEN "load" ELSE "footer"
       /\ trigger'.kind = "refresh" =>
             /\ \A q \in Pipelines \ {page'} : ~cache'[q].present
             /\ page' \in Pipelines =>
                   /\ lookup' = "absent"
                   /\ pc' \in {"body", "footer", "error"} => calls' = Arity(page')
       /\ (trigger.kind = "refresh" /\ trigger'.kind = "view" /\ page' \in Pipelines \ {page}) =>
             (pc' = "load" /\ lookup' = "absent" /\ calls' = 0)
       /\ \A p \in Pipelines :
             (~cache[p].present /\ cache'[p].present) =>
                 (pc = "load" /\ page = p /\ calls = Arity(p) /\ Len(results) = Arity(p))]_vars

\* A refresh that removed the entries of both bundle loaders was followed by a
\* pass that called every loader of the page's bundle again; the other
\* pipeline has no entry.
C11_Witness ==
    /\ trigger.kind = "refresh"
    /\ trigger.removed = Pipelines
    /\ page \in Pipelines
    /\ pc = "body"
    /\ lookup = "absent"
    /\ calls = Arity(page)
    /\ \A q \in Pipelines \ {page} : ~cache[q].present

\* C12: on a cache miss the bundle loader calls every loader of its bundle
\* exactly once, in the order of the bundle, whatever the loaders before it
\* returned: a failed loader is not called again and a failure does not keep
\* the remaining loaders from being called.
C12_EveryLoaderOnce ==
    /\ page = "home" => invoked = <<>>
    /\ page \in Pipelines =>
          /\ Len(invoked) <= Arity(page)
          /\ \A k \in 1..Len(invoked) : invoked[k] = Loaders[page][k]
          /\ calls = Len(invoked)
          /\ Len(results) = Len(invoked)
          /\ lookup = "hit" => invoked = <<>>
          /\ (lookup \in {"absent", "expired"} /\ pc \in {"body", "footer", "error"}) =>
                invoked = Loaders[page]

\* A bundle load whose first loader failed went on to call each of the
\* remaining loaders once.
C12_Witness ==
    /\ LoadDone
    /\ lookup = "absent"
    /\ results[1] = NoneSignal
    /\ invoked = Loaders[page]
    /\ calls = Arity(page)
    /\ Count("query_failed", notices) = Cardinality(Failed(results))

\* C13: when all five Redshift loaders fail, load_fda_dashboard_data emits the
\* mock-data warning once, and the volume table it returns has exactly 12 rows
\* and exactly the columns total_reports, serious_reports, fatal_reports,
\* countries_affected and report_month.
C13_FdaFallbackVolume ==
    (LoadDone /\ page = "fda" /\ Failed(results) = 1..5) =>
        /\ Count("mock_data", notices) = 1
        /\ bundle # NoBundle
        /\ IsSynthetic(bundle[1])
        /\ bundle[1].rows = 12
        /\ Columns("fda", 1, bundle[1]) =
              {[base |-> c, case |-> "lower"] :
                  c \in {"total_reports", "serious_reports", "fatal_reports",
                         "countries_affected", "report_month"}}

\* A Pipeline A load in which every loader failed handed the generated bundle
\* to the page body, with five failure notices and the mock-data warning.
C13_Witness ==
    /\ LoadDone
    /\ page = "fda"
    /\ pc = "body"
    /\ Failed(results) = 1..5
    /\ Count("query_failed", notices) = 5
    /\ Count("mock_data", notices) = 1
    /\ bundle[1].rows = 12

\* C14: every generated table, whatever the loaders that failed, has the row
\* count fixed for its dataset (Pipeline A: 12, 10, 10, 26, 8; Pipeline B: 24,
\* 1000, 5000, 2000, 1000, 125) and the column set fixed for its dataset;
\* a load that fell back handed over generated tables only.
C14_SyntheticShape ==
    LET rows == [fda |-> <<12, 10, 10, 26, 8>>,
                 healthcare |-> <<24, 1000, 5000, 2000, 1000, 125>>]
        width == [fda |-> <<5, 8, 5, 5, 7>>,
                  healthcare |-> <<14, 23, 30, 39, 39, 25>>]
        Shaped(p, b) ==
            \A i \in 1..Len(b) :
                IsSynthetic(b[i]) =>
                    /\ i <= Arity(p)
                    /\ b[i].rows = rows[p][i]
                    /\ b[i].cols = "lower"
                    /\ Cardinality(BaseColumns(p, i, b[i])) = width[p][i]
                    /\ BaseColumns(p, i, b[i]) = BaseColumns(p, i, MockBundle(p)[i])
    IN /\ \A p \in Pipelines : cache[p].present => Shaped(p, cache[p].value)
       /\ page \in Pipelines => Shaped(page, bundle)
       /\ (LoadDone /\ Count("mock_data", notices) > 0) =>
             (Len(bundle) = Arity(page) /\ \A i \in 1..Len(bundle) : IsSynthetic(bundle[i]))

\* A generated Pipeline B bundle, made after the failure of the last loader
\* alone, is in the hands of the page body and in the cache.
C14_Witness ==
    /\ LoadDone
    /\ page = "healthcare"
    /\ Failed(results) = {6}
    /\ Count("mock_data", notices) = 1
    /\ FullySynthetic("healthcare", bundle)
    /\ bundle[3].rows = 5000
    /\ bundle[6].rows = 125
    /\ cache["healthcare"].present
    /\ cache["healthcare"].value = bundle

\* C15: for each of the five Pipeline A datasets, the column names of the
\* generated table are the output column names of the dataset's Redshift
\* query, so the generated table carries the labels of a real non-empty one.
C15_FdaSchemaEquivalence ==
    LET Same(b) ==
            \A i \in 1..Len(b) :
                IsSynthetic(b[i]) =>
                    /\ {c.base : c \in Columns("fda", i, b[i])} = QueryColumns[i]
                    /\ Columns("fda", i, b[i]) = Columns("fda", i, RealTable("fda", i))
    IN /\ cache["fda"].present => Same(cache["fda"].value)
       /\ page = "fda" => Same(bundle)

\* The page body of Pipeline A rendered all of its sections on a generated
\* bundle.
C15_Witness ==
    /\ page = "fda"
    /\ pc = "footer"
    /\ section = Len(FdaSections)
    /\ FullySynthetic("fda", bundle)
    /\ Count("mock_data", notices) = 1

\* C16: once the map is drawn, every row of the global distribution table
\* whose occurcountry is a key of the lookup table is in the choropleth
\* dataset with the 3-letter code of the table, every row whose occurcountry
\* is not a key is absent from it, and no row of the choropleth dataset is
\* without a 3-letter code.
C16_ChoroplethMapping ==
    step = "done" =>
        /\ \A k \in 1..Len(global_dist_df) :
              LET r == global_dist_df[k]
              IN IF r.occurcountry \in DOMAIN code_mapping
                 THEN \E j \in 1..Len(fig_map) :
                         /\ fig_map[j].index = r.index
                         /\ fig_map[j].occurcountry = r.occurcountry
                         /\ fig_map[j].iso_alpha = code_mapping[r.occurcountry]
                 ELSE \A j \in 1..Len(fig_map) : fig_map[j].index # r.index
        /\ \A j \in 1..Len(fig_map) :
              /\ fig_map[j].iso_alpha # NaN
              /\ fig_map[j].iso_alpha \in {code_mapping[c] : c \in DOMAIN code_mapping}
        /\ Len(fig_map) <= Len(global_dist_df)

\* The map was drawn from a table of 20 rows of which two carry codes outside
\* the lookup table; 18 rows reached the choropleth.
C16_Witness ==
    /\ step = "done"
    /\ Len(global_dist_df) = 20
    /\ Cardinality({k \in 1..20 : global_dist_df[k].occurcountry \notin DOMAIN code_mapping}) = 2
    /\ Len(fig_map) = 18

\* C17: every row of the global distribution table whose occurcountry is not
\* a key of the lookup table appears in the heatmap table, for every table
\* size up to the 20 rows of the query's LIMIT.
C17_UnknownCodesRetained ==
    step = "done" =>
        \A k \in 1..Len(global_dist_df) :
            global_dist_df[k].occurcountry \notin DOMAIN code_mapping =>
                \E j \in 1..Len(heatmap_df) :
                    /\ heatmap_df[j].index = global_dist_df[k].occurcountry
                    /\ heatmap_df[j].row = global_dist_df[k].index

\* C17 (amended): the heatmap table holds the first 15 rows of the global
\* distribution table; a row whose occurcountry is not a key of the lookup
\* table appears in it exactly when it is one of those 15 rows.
C17_UnknownCodesRetainedInHead ==
    step = "done" =>
        /\ Len(heatmap_df) = IF Len(global_dist_df) < 15 THEN Len(global_dist_df) ELSE 15
        /\ \A k \in 1..Len(global_dist_df) :
              global_dist_df[k].occurcountry \notin DOMAIN code_mapping =>
                  (k <= 15 <=>
                      \E j \in 1..Len(heatmap_df) :
                          /\ heatmap_df[j].index = global_dist_df[k].occurcountry
                          /\ heatmap_df[j].row = global_dist_df[k].index)

\* The section ran on a table of 20 rows whose 15th and 16th rows carry codes
\* outside the lookup table: the 15th is in the heatmap table and not on the
\* map, the 16th is in neither.
C17_Witness ==
    /\ step = "done"
    /\ Len(global_dist_df) = 20
    /\ global_dist_df[15].occurcountry \notin DOMAIN code_mapping
    /\ global_dist_df[16].occurcountry \notin DOMAIN code_mapping
    /\ Len(heatmap_df) = 15
    /\ heatmap_df[15].index = global_dist_df[15].occurcountry
    /\ \A j \in 1..Len(heatmap_df) : heatmap_df[j].index # global_dist_df[16].occurcountry
    /\ \A j \in 1..Len(fig_map) : fig_map[j].index \notin {14, 15}

\* C18: when every Redshift loader succeeded and the safety-trends loader
\* returned zero rows, the finished render pass of the Pipeline A page has
\* rendered the report-type distribution section (the fifth) without an error
\* in it or before it, and has shown the no-trend-data warning once.
C18_EmptyTrendsWarns ==
    (/\ page = "fda"
     /\ LoadDone
     /\ Failed(results) = {}
     /\ ZeroRow(results[4])
     /\ pc \in PassEnded)
        => (section >= 5 /\ Count("no_trend_data", notices) = 1)

C20_HealthcareLowerCase ==
    LET Lower(b) ==
            /\ Len(b) = 6
            /\ \A i \in 1..6 :
                  /\ IsTable(b[i])
                  /\ \A c \in Columns("healthcare", i, b[i]) : c.case = "lower"
    IN /\ cache["healthcare"].present => Lower(cache["healthcare"].value)
       /\ (page = "healthcare" /\ bundle # NoBundle) => Lower(bundle)
       /\ (page = "healthcare" /\ LoadDone /\ bundle # NoBundle) =>
             \/ \A i \in 1..6 : /\ IsTable(results[i])
                                /\ bundle[i] = LowerCased(results[i])
                                /\ IsReal(bundle[i])
             \/ \A i \in 1..6 : IsSynthetic(bundle[i])

\* The page body of Pipeline B holds a real bundle whose six tables came from
\* the warehouse with upper-case labels and now carry lower-case ones.
C20_Witness ==
    /\ page = "healthcare"
    /\ pc = "body"
    /\ LoadDone
    /\ Failed(results) = {}
    /\ \A i \in 1..6 : results[i].cols = "upper"
    /\ \A i \in 1..6 : IsReal(bundle[i]) /\ bundle[i].cols = "lower"
    /\ \A i \in 1..6 : Columns("healthcare", i, bundle[i]) # {}

\* Every table of bundle b of pipeline p was made by one and the same load.
OneLoad(p, b) ==
    /\ Len(b) = Arity(p)
    /\ \A i, j \in 1..Len(b) : b[i].load = b[j].load

C22_OutcomeCountsUnconstrained ==
    /\ (step = "generate" /\ DOMAIN mock_row = {"table", "report_count"}) =>
          \A v \in IF mock_row.table = "top_drugs" THEN randint(50, 800)
                    ELSE randint(40, 600) :
              ENABLED DrawCount("recovered_count", v)
    /\ (step = "done" /\ mock_row.table = "suspect_drugs") =>
          /\ top_suspect[1].recovery_rate.kind = "float"
          /\ (top_suspect[1].recovery_rate.tenths > 1000
                 <=> mock_row.recovered_count > mock_row.report_count)

\* The generator made a suspect-drugs row whose recovered_count exceeds its
\* report_count, and the page body computed a recovery rate above 100% for it.
C22_Witness ==
    /\ step = "done"
    /\ mock_row.table = "suspect_drugs"
    /\ mock_row.recovered_count > mock_row.report_count
    /\ top_suspect[1].recovery_rate.kind = "float"
    /\ top_suspect[1].recovery_rate.tenths > 1000

\* The generator made a top-drugs row whose recovered_count exceeds its
\* report_count.
C22_WitnessTopDrugs ==
    /\ step = "done"
    /\ mock_row.table = "top_drugs"
    /\ mock_row.recovered_count > mock_row.report_count

\* C28: every row of the synthetic executive table has a month field in
\* 1..12, and its (year, month) fields name the calendar month of its
\* month_date, which is i months before the current month.
C28_ExecDatesValid ==
    \A k \in 1..Len(exec_data) :
        /\ exec_data[k].month \in 1..12
        /\ exec_data[k].year = exec_data[k].month_date.year
        /\ exec_data[k].month = exec_data[k].month_date.month

\* C23: a synthetic bundle is memoized like a real one.  While a pass shows a
\* synthetic bundle, the entry of its bundle loader holds that bundle; a view
\* of the page while the entry is younger than the TTL shows the stored
\* synthetic bundle as a cache hit, leaves the cache as it is and calls no
\* loader, whatever the warehouse would answer now; and a pass that starts a
\* new load over a stored synthetic bundle follows the expiry of the TTL or
\* the refresh button.
C23_SyntheticMemoized ==
    [][/\ (pc' \in {"body", "footer", "error"} /\ page' \in Pipelines
             /\ FullySynthetic(page', bundle')) =>
            (cache'[page'].present /\ cache'[page'].value = bundle')
       /\ \A p \in Pipelines :
            (cache[p].present /\ FullySynthetic(p, cache[p].value) /\ PassStarts(p)) =>
               /\ (IsFresh(cache[p]) /\ trigger'.kind = "view") =>
                     /\ pc' = "body"
                     /\ lookup' = "hit"
                     /\ bundle' = cache[p].value
                     /\ cache' = cache
                     /\ calls' = 0
               /\ pc' = "load" => (~IsFresh(cache[p]) \/ trigger'.kind = "refresh")
       /\ (lookup = "hit" /\ lookup' = "hit" /\ page' = page /\ trigger' = trigger) =>
            (calls' = 0 /\ invoked' = <<>> /\ bundle' = bundle)]_vars

\* A later view, some minutes after the load, was served the stored synthetic
\* bundle without any loader call.
C23_Witness ==
    /\ page \in Pipelines
    /\ pc = "footer"
    /\ trigger.kind = "view"
    /\ lookup = "hit"
    /\ FullySynthetic(page, bundle)
    /\ cache[page].present
    /\ cache[page].value = bundle
    /\ cache[page].age > 0
    /\ calls = 0
    /\ invoked = <<>>

\* Names of the dataset loaders of the bundle of pipeline p.
LoaderNames(p) == {Loaders[p][k] : k \in 1..Arity(p)}

\* C24: the pages are isolated.  A pass of the Home page invokes no loader
\* and reads no bundle; a pass of a pipeline page invokes loaders of its own
\* warehouse only; and no step of a pass of one page changes the cache entry
\* of the other pipeline: that entry changes only by the passing of time or
\* by the refresh button.
C24_PageIsolation ==
    [][/\ LoaderNames("fda") \cap LoaderNames("healthcare") = {}
       /\ page' = "home" => (invoked' = <<>> /\ calls' = 0 /\ bundle' = NoBundle)
       /\ \A p \in Pipelines :
            page' = p => \A k \in 1..Len(invoked') : invoked'[k] \in LoaderNames(p)
       /\ \A q \in Pipelines :
            (q # page' /\ cache'[q] # cache[q]) =>
               \/ trigger'.kind = "refresh" /\ trigger' # trigger /\ cache'[q] = NoEntry
               \/ /\ cache' = [p \in Pipelines |-> Aged(cache[p])]
                  /\ UNCHANGED <<page, pc, lookup, results, bundle, invoked, calls, trigger>>
      ]_vars

\* The AWS + OpenFDA page ran its five loaders and stored its bundle while
\* the entry of the other pipeline, stored some minutes earlier and since
\* expired, is still in place as it was.
C24_Witness ==
    /\ page = "fda"
    /\ pc = "footer"
    /\ lookup # "hit"
    /\ invoked = Loaders["fda"]
    /\ cache["fda"].present
    /\ cache["fda"].age = 0
    /\ cache["healthcare"].present
    /\ cache["healthcare"].age = TtlMinutes

\* C25: rendering does not modify the bundle.  At every point of a page body
\* the tables of the bundle are the ones the body was handed, and every name
\* a column was added to or whose labels were replaced is bound to a table
\* object of its own, not to a table of the bundle.
C25_RenderLeavesBundle ==
    step = "statements" =>
       /\ bundle = cache[page].value
       /\ \A n \in DOMAIN frames : frames[n].written # {} => frames[n].of = 0

\* The AWS + OpenFDA body ran to its end: iso_alpha was added to map_df and
\* recovery_rate to top_suspect, and the bundle is the one it was handed.
C25_Witness ==
    /\ step = "statements"
    /\ page = "fda"
    /\ section = Len(FdaStatements)
    /\ "iso_alpha" \in frames["map_df"].written
    /\ "recovery_rate" \in frames["top_suspect"].written
    /\ bundle = cache[page].value

\* The Snowflake + Synthea body ran to its end: the value counts of age_group
\* and the provider aggregates were relabelled, and the bundle is the one it
\* was handed.
C25_WitnessHealthcare ==
    /\ step = "statements"
    /\ page = "healthcare"
    /\ section = Len(HealthcareStatements)
    /\ frames["age_dist"].written # {}
    /\ frames["provider_metrics"].written # {}
    /\ bundle = cache[page].value

\* C26: a bundle load emits the mock-data warning exactly when it returns a
\* generated bundle.  While the loaders of a load are being called no warning
\* has been emitted; once the load is over there is one warning if the bundle
\* returned is synthetic and none otherwise (a real bundle, or no bundle
\* because the load raised); and the warning follows every failure notice of
\* the loaders in the notices of the pass.
C26_MockWarningIffSynthetic ==
    /\ (page \in Pipelines /\ pc = "load") => Count("mock_data", notices) = 0
    /\ LoadDone =>
          /\ Count("mock_data", notices) \in {0, 1}
          /\ Count("mock_data", notices) = 1 <=> FullySynthetic(page, bundle)
          /\ \A j, k \in 1..Len(notices) :
                (notices[j] = "mock_data" /\ notices[k] = "query_failed") => k < j

\* In the fallback branch the warning is on the page before the first value
\* of a generated row is drawn.
C26_WarnedBeforeGenerating ==
    (step \in {"generate", "done"}) => Count("mock_data", notices) = 1

\* A Pipeline B load in which some but not all loaders failed returned the
\* generated bundle and emitted the warning once, after the failure notices.
C26_Witness ==
    /\ LoadDone
    /\ page = "healthcare"
    /\ pc = "footer"
    /\ Failed(results) # {}
    /\ Failed(results) # 1..6
    /\ FullySynthetic(page, bundle)
    /\ Count("mock_data", notices) = 1
    /\ notices[Len(notices)] = "mock_data"

\* A load whose loaders all answered returned their tables and emitted no
\* warning.
C26_WitnessReal ==
    /\ LoadDone
    /\ pc = "footer"
    /\ Failed(results) = {}
    /\ ~FullySynthetic(page, bundle)
    /\ Count("mock_data", notices) = 0

\* C27: the refresh button clears the cache and restarts the script before
\* any page body runs.  Throughout the pass restarted by the button, the
\* bundle lookup of a pipeline page found no entry; while its loaders are
\* being called no bundle is held and the cache is empty; the bundle its page
\* body gets is the one this pass loaded and stored; and no entry of the
\* other pipeline exists.  A restarted pass of the Home page invokes no
\* loader and leaves the cache empty.
C27_RefreshRestartsOnMiss ==
    trigger.kind = "refresh" =>
       /\ lookup # "hit"
       /\ page \in Pipelines =>
             /\ lookup = "absent"
             /\ pc = "load" => (bundle = NoBundle /\ cache = EmptyCache)
             /\ pc \in {"body", "footer"} =>
                   (LoadDone /\ cache[page].present /\ cache[page].value = bundle)
             /\ \A q \in Pipelines \ {page} : ~cache[q].present
       /\ page = "home" => (cache = EmptyCache /\ invoked = <<>> /\ bundle = NoBundle)

\* The button was pressed on a pipeline page whose bundle was in the cache;
\* the restarted pass missed, called every loader of the page again and
\* rendered the bundle it loaded.
C27_Witness ==
    /\ trigger.kind = "refresh"
    /\ page \in trigger.removed
    /\ pc = "footer"
    /\ lookup = "absent"
    /\ invoked = Loaders[page]
    /\ calls = Arity(page)
    /\ cache[page].present
    /\ cache[page].age = 0

====
